---- MODULE Spec2Model ----
(***************************************************************************)
(* A model of the tetris-game reducer: the pure state-transition functions *)
(* of src/state.ts, the constants and tables of src/types.ts, the piece    *)
(* generator and INITIAL_STATE of src/util.ts and the scan reducer         *)
(* handleInput of src/main.ts.                                             *)
(*                                                                         *)
(* Matrices (grid, shapes) are sequences of rows; the code's 0-based       *)
(* element m[r][c] is At(m, r, c).  The State and Tetromino records keep   *)
(* the field names of src/types.ts.                                        *)
(***************************************************************************)
EXTENDS Integers, Sequences, FiniteSets, TLC

(***************************************************************************)
(* Constants (src/types.ts, src/util.ts)                                   *)
(***************************************************************************)
GRID_WIDTH == 10
GRID_HEIGHT == 20
TICK_RATE_MS == 500
MINIMUM_TICKRATE == 25
TICKRATE_INCREMENT == 50
INITIAL_LEVEL == 0
INITIAL_ORIENTATION == 0
INITIAL_SCORE == 0
\* RNG.m = 0x7FFFFFFF
RNG_m == 2147483647

\* JavaScript values that are not numbers or records of the State type.
\* NaN (the result of number + undefined) is a number outside every range a
\* coordinate can take; every arithmetic step and comparison below goes
\* through Plus/Lt/Ge, which give NaN the semantics it has in JavaScript.
NaN == -1000
Undefined == [undefined |-> TRUE]
TypeError == [error |-> "TypeError"]

Plus(a, b) == IF a = NaN \/ b = NaN THEN NaN ELSE a + b
Lt(a, b) == a # NaN /\ b # NaN /\ a < b
Ge(a, b) == a # NaN /\ b # NaN /\ a >= b

\* m[r][c] with the code's 0-based indices.
At(m, r, c) == m[r + 1][c + 1]

TetrominoShapes ==
  [ I |-> << <<0, 0, 0, 0>>,
             <<1, 1, 1, 1>>,
             <<0, 0, 0, 0>>,
             <<0, 0, 0, 0>> >>,
    J |-> << <<1, 0, 0>>,
             <<1, 1, 1>>,
             <<0, 0, 0>> >>,
    L |-> << <<0, 0, 1>>,
             <<1, 1, 1>>,
             <<0, 0, 0>> >>,
    O |-> << <<1, 1>>,
             <<1, 1>> >>,
    S |-> << <<0, 1, 1>>,
             <<1, 1, 0>>,
             <<0, 0, 0>> >>,
    T |-> << <<0, 1, 0>>,
             <<1, 1, 1>>,
             <<0, 0, 0>> >>,
    Z |-> << <<1, 1, 0>>,
             <<0, 1, 1>>,
             <<0, 0, 0>> >> ]

TetrominoColours ==
  [ I |-> "cyan", J |-> "orange", L |-> "dodgerblue", O |-> "yellow",
    S |-> "green", T |-> "magenta", Z |-> "red" ]

\* Object.keys(TetrominoShapes): insertion order.
tetrominoKeys == <<"I", "J", "L", "O", "S", "T", "Z">>

JLSTZKicks ==
  << << <<-1, 0>>, <<-1, -1>>, <<0, 2>>, <<-1, 2>> >>,
     << <<1, 0>>, <<1, 1>>, <<0, -2>>, <<1, -2>> >>,
     << <<1, 0>>, <<1, -1>>, <<0, 2>>, <<1, 2>> >>,
     << <<-1, 0>>, <<-1, 1>>, <<0, -2>>, <<-1, -2>> >> >>

\* WallKickData[key][orientation] is the list of [dx, dy] tests; the entry of
\* O is [[[]]]: one orientation holding one test with no dx and no dy.
WallKickData ==
  [ I |-> << << <<-2, 0>>, <<1, 0>>, <<-2, 1>>, <<1, -2>> >>,
             << <<-1, 0>>, <<2, 0>>, <<-1, -2>>, <<2, 1>> >>,
             << <<2, 0>>, <<-1, 0>>, <<2, -1>>, <<-1, 2>> >>,
             << <<1, 0>>, <<-2, 0>>, <<1, 2>>, <<-2, -1>> >> >>,
    J |-> JLSTZKicks,
    L |-> JLSTZKicks,
    O |-> << << <<>> >> >>,
    S |-> JLSTZKicks,
    T |-> JLSTZKicks,
    Z |-> JLSTZKicks ]

(***************************************************************************)
(* Geometry and collision (src/state.ts)                                   *)
(***************************************************************************)
\* Mutant of isCollision: a cell above the grid collides.
isCollisionNoSpawnBuffer(x, y, shape, grid) ==
  \E yBlock \in 0..(Len(shape) - 1) :
    \E xBlock \in 0..(Len(shape[yBlock + 1]) - 1) :
      /\ At(shape, yBlock, xBlock) = 1
      /\ LET newX == Plus(x, xBlock)
             newY == Plus(y, yBlock)
         IN \/ Ge(newY, GRID_HEIGHT)
            \/ Lt(newX, 0)
            \/ Ge(newX, GRID_WIDTH)
            \/ Lt(newY, 0)
            \/ (newX # NaN /\ At(grid, newY, newX) = 1)

\* The indices <<newY, newX>> at which isCollision may evaluate
\* grid[newY][newX]: those of the occupied cells for which the three tests
\* before it are false and newY >= 0 is true.
isCollisionReads(x, y, shape) ==
  { <<Plus(y, q[1]), Plus(x, q[2])>> :
      q \in { rc \in (0..(Len(shape) - 1)) \X (0..(Len(shape[1]) - 1)) :
                /\ At(shape, rc[1], rc[2]) = 1
                /\ ~Ge(Plus(y, rc[1]), GRID_HEIGHT)
                /\ ~Lt(Plus(x, rc[2]), 0)
                /\ ~Ge(Plus(x, rc[2]), GRID_WIDTH)
                /\ Ge(Plus(y, rc[1]), 0) } }

isCollision(x, y, shape, grid) ==
  \E yBlock \in 0..(Len(shape) - 1) :
    \E xBlock \in 0..(Len(shape[yBlock + 1]) - 1) :
      /\ At(shape, yBlock, xBlock) = 1
      /\ LET newX == Plus(x, xBlock)
             newY == Plus(y, yBlock)
         IN \/ Ge(newY, GRID_HEIGHT)
            \/ Lt(newX, 0)
            \/ Ge(newX, GRID_WIDTH)
            \/ (Ge(newY, 0) /\ newX # NaN /\ At(grid, newY, newX) = 1)

\* Mutant of isOutOfBounds: a cell above the grid is out of bounds.
isOutOfBoundsAboveTop(x, y, shape) ==
  \E yBlock \in 0..(Len(shape) - 1) :
    \E xBlock \in 0..(Len(shape[yBlock + 1]) - 1) :
      /\ At(shape, yBlock, xBlock) = 1
      /\ LET newX == Plus(x, xBlock)
             newY == Plus(y, yBlock)
         IN \/ Lt(newX, 0)
            \/ Ge(newX, GRID_WIDTH)
            \/ Ge(newY, GRID_HEIGHT)
            \/ Lt(newY, 0)

isOutOfBounds(x, y, shape) ==
  \E yBlock \in 0..(Len(shape) - 1) :
    \E xBlock \in 0..(Len(shape[yBlock + 1]) - 1) :
      /\ At(shape, yBlock, xBlock) = 1
      /\ LET newX == Plus(x, xBlock)
             newY == Plus(y, yBlock)
         IN \/ Lt(newX, 0)
            \/ Ge(newX, GRID_WIDTH)
            \/ Ge(newY, GRID_HEIGHT)

isSettled(currentTetromino, grid) ==
  LET yDownByOne == Plus(currentTetromino.y, 1)
  IN \/ isCollision(currentTetromino.x, yDownByOne, currentTetromino.shape, grid)
     \/ isOutOfBounds(currentTetromino.x, yDownByOne, currentTetromino.shape)

isGameEnd(s) ==
  /\ isSettled(s.currentTetromino, s.grid)
  /\ Lt(s.currentTetromino.y, 0)
  /\ \E c \in 1..Len(s.currentTetromino.shape[1]) :
       s.currentTetromino.shape[1][c] = 1

\* Mutant of moveTetromino: the settled cells are not looked at, only the bounds.
moveTetrominoBoundsOnly(s, xOffset, yOffset) ==
  LET movedTetromino ==
        [s.currentTetromino EXCEPT !.x = Plus(@, xOffset), !.y = Plus(@, yOffset)]
  IN IF isOutOfBounds(movedTetromino.x, movedTetromino.y, movedTetromino.shape)
     THEN s
     ELSE [s EXCEPT !.currentTetromino = movedTetromino]

moveTetromino(s, xOffset, yOffset) ==
  LET movedTetromino ==
        [s.currentTetromino EXCEPT !.x = Plus(@, xOffset), !.y = Plus(@, yOffset)]
  IN IF \/ isCollision(movedTetromino.x, movedTetromino.y, movedTetromino.shape, s.grid)
        \/ isOutOfBounds(movedTetromino.x, movedTetromino.y, movedTetromino.shape)
     THEN s
     ELSE [s EXCEPT !.currentTetromino = movedTetromino]

(***************************************************************************)
(* Rotation with wall kicks (src/state.ts)                                 *)
(***************************************************************************)
ReverseRow(row) == [k \in 1..Len(row) |-> row[Len(row) + 1 - k]]

\* Mutant of rotateMatrix: the transpose without the reversal of the rows.
rotateMatrixTransposeOnly(matrix) ==
  [i \in 1..Len(matrix[1]) |-> [j \in 1..Len(matrix) |-> matrix[j][i]]]

rotateMatrix(matrix) ==
  LET transposedMatrix ==
        [i \in 1..Len(matrix[1]) |-> [j \in 1..Len(matrix) |-> matrix[j][i]]]
  IN [i \in 1..Len(transposedMatrix) |-> ReverseRow(transposedMatrix[i])]

\* test[0] and test[1] of a wall-kick test; a missing element is undefined,
\* and number + undefined is NaN.
KickDx(test) == IF Len(test) >= 1 THEN test[1] ELSE NaN
KickDy(test) == IF Len(test) >= 2 THEN test[2] ELSE NaN

\* Mutant of attemptWallKick: the last valid test is taken, not the first.
attemptWallKickLastValid(currentTetromino, rotatedTetromino, grid) ==
  LET wallKickTests == WallKickData[currentTetromino.key][currentTetromino.orientation + 1]
      Valid(i) ==
        LET adjX == Plus(rotatedTetromino.x, KickDx(wallKickTests[i]))
            adjY == Plus(rotatedTetromino.y, KickDy(wallKickTests[i]))
        IN /\ ~isCollision(adjX, adjY, rotatedTetromino.shape, grid)
           /\ ~isOutOfBounds(adjX, adjY, rotatedTetromino.shape)
      found == {i \in 1..Len(wallKickTests) : Valid(i)}
  IN IF found = {}
     THEN Undefined
     ELSE LET last == CHOOSE i \in found : \A j \in found : i >= j
          IN [rotatedTetromino EXCEPT
                !.x = Plus(@, KickDx(wallKickTests[last])),
                !.y = Plus(@, KickDy(wallKickTests[last]))]

\* The tetromino displaced by a wall kick, Undefined when no test is valid,
\* TypeError when WallKickData[key] has no entry for the orientation
\* (undefined.find throws).
attemptWallKick(currentTetromino, rotatedTetromino, grid) ==
  LET wallKickDataTetromino == WallKickData[currentTetromino.key]
  IN IF currentTetromino.orientation + 1 > Len(wallKickDataTetromino)
     THEN TypeError
     ELSE
       LET wallKickTests == wallKickDataTetromino[currentTetromino.orientation + 1]
           Valid(i) ==
             LET adjX == Plus(rotatedTetromino.x, KickDx(wallKickTests[i]))
                 adjY == Plus(rotatedTetromino.y, KickDy(wallKickTests[i]))
             IN /\ ~isCollision(adjX, adjY, rotatedTetromino.shape, grid)
                /\ ~isOutOfBounds(adjX, adjY, rotatedTetromino.shape)
           found == {i \in 1..Len(wallKickTests) : Valid(i)}
       IN IF found = {}
          THEN Undefined
          ELSE LET first == CHOOSE i \in found : \A j \in found : i <= j
                   validWallKick == wallKickTests[first]
               IN [rotatedTetromino EXCEPT
                     !.x = Plus(@, KickDx(validWallKick)),
                     !.y = Plus(@, KickDy(validWallKick))]

\* Mutant of rotateTetromino: the wall kicks are tried without testing the
\* rotation in place first.
rotateTetrominoAlwaysKicks(s) ==
  LET rotatedTetromino ==
        [s.currentTetromino EXCEPT
           !.orientation = (@ + 1) % 4,
           !.shape = rotateMatrix(@)]
      wallKickedTetromino ==
        attemptWallKick(s.currentTetromino, rotatedTetromino, s.grid)
  IN IF wallKickedTetromino = TypeError THEN TypeError
     ELSE IF wallKickedTetromino # Undefined
          THEN [s EXCEPT !.currentTetromino = wallKickedTetromino]
          ELSE s

rotateTetromino(s) ==
  LET rotatedTetromino ==
        [s.currentTetromino EXCEPT
           !.orientation = (@ + 1) % 4,
           !.shape = rotateMatrix(@)]
  IN IF /\ ~isCollision(rotatedTetromino.x, rotatedTetromino.y, rotatedTetromino.shape, s.grid)
        /\ ~isOutOfBounds(rotatedTetromino.x, rotatedTetromino.y, rotatedTetromino.shape)
     THEN [s EXCEPT !.currentTetromino = rotatedTetromino]
     ELSE LET wallKickedTetromino ==
                attemptWallKick(s.currentTetromino, rotatedTetromino, s.grid)
          IN IF wallKickedTetromino = TypeError THEN TypeError
             ELSE IF wallKickedTetromino # Undefined
                  THEN [s EXCEPT !.currentTetromino = wallKickedTetromino]
                  ELSE s

(***************************************************************************)
(* Row clearing and grid merge (src/state.ts)                              *)
(***************************************************************************)
RowFull(row) == \A i \in 1..Len(row) : row[i] = 1
RowNotFull(row) == ~RowFull(row)

\* Mutant of clearCompletedRows: the zeroed rows are appended below the
\* remaining rows instead of put on top.
clearCompletedRowsZerosBelow(grid) ==
  LET fullRows == SelectSeq(grid, RowFull)
  IN IF Len(fullRows) = 0
     THEN <<grid, 0>>
     ELSE <<SelectSeq(grid, RowNotFull)
            \o [i \in 1..Len(fullRows) |-> [j \in 1..GRID_WIDTH |-> 0]],
            Len(fullRows)>>

\* Returns <<grid', number of rows cleared>>.
clearCompletedRows(grid) ==
  LET fullRows == SelectSeq(grid, RowFull)
  IN IF Len(fullRows) = 0
     THEN <<grid, 0>>
     ELSE LET numFullRows == Len(fullRows)
              clearedGrid ==
                [i \in 1..numFullRows |-> [j \in 1..GRID_WIDTH |-> 0]]
                \o SelectSeq(grid, RowNotFull)
          IN <<clearedGrid, numFullRows>>

\* Mutant of updateGrid: 1 is added over the whole bounding box of the shape
\* instead of the shape's cell value.
updateGridWholeBox(grid, currentTetromino) ==
  LET xPivot == currentTetromino.x
      yPivot == currentTetromino.y
      yLength == Len(currentTetromino.shape)
      xLength == Len(currentTetromino.shape[1])
  IN [yi \in 1..Len(grid) |->
       [xi \in 1..Len(grid[yi]) |->
          IF /\ Ge(yi - 1, yPivot)
             /\ Lt(yi - 1, Plus(yPivot, yLength))
             /\ Ge(xi - 1, xPivot)
             /\ Lt(xi - 1, Plus(xPivot, xLength))
          THEN grid[yi][xi] + 1
          ELSE grid[yi][xi]]]

updateGrid(grid, currentTetromino) ==
  LET xPivot == currentTetromino.x
      yPivot == currentTetromino.y
      yLength == Len(currentTetromino.shape)
      xLength == Len(currentTetromino.shape[1])
  IN [yi \in 1..Len(grid) |->
       [xi \in 1..Len(grid[yi]) |->
          LET yIndex == yi - 1
              xIndex == xi - 1
              isOverlap ==
                /\ Ge(yIndex, yPivot)
                /\ Lt(yIndex, Plus(yPivot, yLength))
                /\ Ge(xIndex, xPivot)
                /\ Lt(xIndex, Plus(xPivot, xLength))
          IN IF isOverlap
             THEN grid[yi][xi]
                  + At(currentTetromino.shape, yIndex - yPivot, xIndex - xPivot)
             ELSE grid[yi][xi]]]

(***************************************************************************)
(* Piece generation (src/util.ts)                                          *)
(***************************************************************************)
\* RNG.scale(hash) = hash / (RNG.m - 1), kept as a fraction.
scale(hash) == [num |-> hash, den |-> RNG_m - 1]

\* A random number rng is represented by its numerator h over RNG.m - 1
\* (RNG.scale(h) = h / (m - 1)).  Math.floor(rng * 7) is then
\* floor(7h / (m - 1)); m - 1 is a multiple of 7, so this is h \div ((m-1)/7).
randomIndexOf(rng) == rng \div ((RNG_m - 1) \div Len(tetrominoKeys))

SpawnX(key) == (GRID_WIDTH \div 2) - (Len(TetrominoShapes[key][1]) \div 2)

\* TypeError when the index selects no key (TetrominoShapes[undefined][0]).
getRandomTetromino(rng) ==
  LET randomIndex == randomIndexOf(rng)
  IN IF randomIndex + 1 \notin 1..Len(tetrominoKeys)
     THEN TypeError
     ELSE LET randomTetrominoKey == tetrominoKeys[randomIndex + 1]
          IN [ x |-> SpawnX(randomTetrominoKey),
               y |-> -2,
               shape |-> TetrominoShapes[randomTetrominoKey],
               key |-> randomTetrominoKey,
               orientation |-> INITIAL_ORIENTATION,
               colour |-> TetrominoColours[randomTetrominoKey] ]

\* Mutant of resetPosition: the shape is kept as it was turned.
resetPositionKeepsShape(tetromino) ==
  [tetromino EXCEPT
     !.orientation = INITIAL_ORIENTATION,
     !.x = SpawnX(tetromino.key),
     !.y = -2]

\* Mutant of resetPosition: the column is kept.
resetPositionKeepsX(tetromino) ==
  [tetromino EXCEPT
     !.orientation = INITIAL_ORIENTATION,
     !.shape = TetrominoShapes[tetromino.key],
     !.y = -2]

resetPosition(tetromino) ==
  [tetromino EXCEPT
     !.orientation = INITIAL_ORIENTATION,
     !.shape = TetrominoShapes[tetromino.key],
     !.x = SpawnX(tetromino.key),
     !.y = -2]

EmptyGrid == [r \in 1..GRID_HEIGHT |-> [c \in 1..GRID_WIDTH |-> 0]]

\* INITIAL_STATE is computed once, when the module is loaded, from
\* INITIAL_SEED = Math.random(): seedRng is that seed and nextRng the value
\* RNG.scale(RNG.hash(INITIAL_SEED * 314159)).
InitialStateOf(seedRng, nextRng) ==
  [ grid |-> EmptyGrid,
    currentTetromino |-> getRandomTetromino(seedRng),
    gameEnd |-> FALSE,
    gamePause |-> FALSE,
    gameRestart |-> FALSE,
    nextTetromino |-> getRandomTetromino(nextRng),
    holdTetromino |-> Undefined,
    level |-> INITIAL_LEVEL,
    score |-> INITIAL_SCORE,
    highScore |-> INITIAL_SCORE ]

(***************************************************************************)
(* The reducers: tick, hard drop, hold, key moves (src/state.ts)           *)
(***************************************************************************)
\* Mutant of levelOf: a level every 100 points.
levelOfPerHundred(newScore) == newScore \div 100

\* Mutant of highScoreOf: the comparison inverted.
highScoreOfInverted(newScore, highScore) ==
  IF newScore > highScore THEN highScore ELSE newScore

\* The score, level and high score a settle computes.
scoreAfter(score, numFullRows) == score + numFullRows * 100
levelOf(newScore) == newScore \div 1000
highScoreOf(newScore, highScore) == IF newScore > highScore THEN newScore ELSE highScore

\* Mutant of tick: the descent of a piece that is not settled leaves the
\* gameRestart flag as it is.
tickKeepsRestartFlag(s, rng) ==
  IF isGameEnd(s)
  THEN [s EXCEPT !.gameEnd = TRUE]
  ELSE IF isSettled(s.currentTetromino, s.grid)
  THEN LET cleared == clearCompletedRows(updateGrid(s.grid, s.currentTetromino))
           newScore == scoreAfter(s.score, cleared[2])
           drawn == getRandomTetromino(rng)
       IN IF drawn = TypeError THEN TypeError
          ELSE [s EXCEPT
                  !.grid = cleared[1],
                  !.currentTetromino = s.nextTetromino,
                  !.nextTetromino = drawn,
                  !.level = levelOf(newScore),
                  !.score = newScore,
                  !.highScore = highScoreOf(newScore, s.highScore)]
  ELSE IF s.gamePause \/ s.gameEnd
       THEN s
       ELSE moveTetromino(s, 0, 1)

tick(s, rng) ==
  IF isGameEnd(s)
  THEN [s EXCEPT !.gameEnd = TRUE]
  ELSE IF isSettled(s.currentTetromino, s.grid)
  THEN LET updatedGrid == updateGrid(s.grid, s.currentTetromino)
           cleared == clearCompletedRows(updatedGrid)
           clearedGrid == cleared[1]
           numFullRows == cleared[2]
           newScore == scoreAfter(s.score, numFullRows)
           drawn == getRandomTetromino(rng)
       IN IF drawn = TypeError THEN TypeError
          ELSE [s EXCEPT
                  !.grid = clearedGrid,
                  !.currentTetromino = s.nextTetromino,
                  !.nextTetromino = drawn,
                  !.level = levelOf(newScore),
                  !.score = newScore,
                  !.highScore = highScoreOf(newScore, s.highScore)]
  ELSE IF s.gamePause \/ s.gameEnd
       THEN s
       ELSE [moveTetromino(s, 0, 1) EXCEPT !.gameRestart = FALSE]

\* Mutant of updateState: left and right exchanged.
updateStateMirrored(s, key) ==
  IF key = "ArrowLeft" THEN moveTetromino(s, 1, 0)
  ELSE IF key = "ArrowRight" THEN moveTetromino(s, -1, 0)
  ELSE IF key = "ArrowDown" THEN moveTetromino(s, 0, 1)
  ELSE IF key = "ArrowUp" THEN rotateTetromino(s)
  ELSE s

updateState(s, key) ==
  IF key = "ArrowLeft" THEN moveTetromino(s, -1, 0)
  ELSE IF key = "ArrowRight" THEN moveTetromino(s, 1, 0)
  ELSE IF key = "ArrowDown" THEN moveTetromino(s, 0, 1)
  ELSE IF key = "ArrowUp" THEN rotateTetromino(s)
  ELSE s

\* Mutant of dropTetromino: one row down at most.
dropTetrominoOneStep(s) == moveTetromino(s, 0, 1)

RECURSIVE dropOneStepRecursive(_)
dropOneStepRecursive(currentState) ==
  IF isSettled(currentState.currentTetromino, currentState.grid)
  THEN currentState
  ELSE dropOneStepRecursive(moveTetromino(currentState, 0, 1))

dropTetromino(s) == dropOneStepRecursive(s)

\* Mutant of dropSteps: the move that finds the piece settled is counted too.
RECURSIVE dropStepsCountsLast(_)
dropStepsCountsLast(currentState) ==
  IF isSettled(currentState.currentTetromino, currentState.grid)
  THEN 1
  ELSE 1 + dropStepsCountsLast(moveTetromino(currentState, 0, 1))

\* The number of calls moveTetromino(currentState, 0, 1) that
\* dropOneStepRecursive makes before it returns.
RECURSIVE dropSteps(_)
dropSteps(currentState) ==
  IF isSettled(currentState.currentTetromino, currentState.grid)
  THEN 0
  ELSE 1 + dropSteps(moveTetromino(currentState, 0, 1))

hardDrop(s, rng) == tick(dropTetromino(s), rng)

\* Mutant of holdState: the piece put aside is kept as it was in play.
holdStateKeepsPlace(s, tickRng) ==
  IF s.holdTetromino = Undefined
  THEN LET drawn == getRandomTetromino(tickRng)
       IN IF drawn = TypeError THEN TypeError
          ELSE [s EXCEPT
                  !.currentTetromino = s.nextTetromino,
                  !.nextTetromino = drawn,
                  !.holdTetromino = s.currentTetromino,
                  !.gameRestart = FALSE]
  ELSE [s EXCEPT
          !.currentTetromino = resetPosition(s.holdTetromino),
          !.holdTetromino = s.currentTetromino,
          !.gameRestart = FALSE]

\* Mutant of holdState: the next piece is promoted and a piece drawn whether
\* or not a piece is held.
holdStateAlwaysPromotes(s, tickRng) ==
  LET drawn == getRandomTetromino(tickRng)
  IN IF drawn = TypeError THEN TypeError
     ELSE [s EXCEPT
             !.currentTetromino = s.nextTetromino,
             !.nextTetromino = drawn,
             !.holdTetromino = resetPosition(s.currentTetromino),
             !.gameRestart = FALSE]

holdState(s, tickRng) ==
  IF s.holdTetromino = Undefined
  THEN LET drawn == getRandomTetromino(tickRng)
       IN IF drawn = TypeError THEN TypeError
          ELSE [s EXCEPT
                  !.currentTetromino = s.nextTetromino,
                  !.nextTetromino = drawn,
                  !.holdTetromino = resetPosition(s.currentTetromino),
                  !.gameRestart = FALSE]
  ELSE [s EXCEPT
          !.currentTetromino = resetPosition(s.holdTetromino),
          !.holdTetromino = resetPosition(s.currentTetromino),
          !.gameRestart = FALSE]

(***************************************************************************)
(* Input classification and the scan reducer (src/state.ts, src/main.ts)   *)
(*                                                                         *)
(* An Input is a tick's random number, a KeyboardEvent of movements$, a    *)
(* MouseEvent of one of the two buttons, or a [number, KeyboardEvent] pair *)
(* of hardDrop$ / holdRng$.                                                *)
(***************************************************************************)
TickInput(rng) == [rng |-> rng, type |-> "number"]
KeyInput(code) == [type |-> "KeyboardEvent", code |-> code]
ClickInput(target) == [type |-> "MouseEvent", target |-> target]
PairInput(rng, code) == [rng |-> rng, type |-> "Array", code |-> code]

\* Mutant of isMovement: the pause and game-end gate is left out.
isMovementUngated(s, input) == input.type = "KeyboardEvent"

isMovement(s, input) ==
  /\ input.type = "KeyboardEvent"
  /\ ~s.gameEnd
  /\ ~s.gamePause

isPause(input, button) ==
  /\ input.type = "MouseEvent"
  /\ input.target = button

isRestart(input, button) ==
  /\ input.type = "MouseEvent"
  /\ input.target = button

isHardDrop(s, input) ==
  /\ input.type = "Array"
  /\ input.code = "Space"
  /\ ~s.gameEnd
  /\ ~s.gamePause

isHold(s, input) ==
  /\ input.type = "Array"
  /\ input.code = "KeyC"
  /\ ~s.gameEnd
  /\ ~s.gamePause

\* The rest operand of the final else branch, tick(s, currInput as number):
\* only a tick's number reaches it in a running game.
AsNumber(input) == IF input.type = "number" THEN input.rng ELSE NaN

WithRestartCleared(r) == IF r = TypeError THEN TypeError ELSE [r EXCEPT !.gameRestart = FALSE]

\* Mutant of restartState: the high score is not carried over.
restartStateDropsHighScore(initial, s) == [initial EXCEPT !.gameRestart = TRUE]

\* Mutant of restartState: the paused flag is carried over as well.
restartStateKeepsPause(initial, s) ==
  [initial EXCEPT !.gameRestart = TRUE, !.highScore = s.highScore,
                  !.gamePause = s.gamePause]

\* { ...INITIAL_STATE, gameRestart: true, highScore: s.highScore }
restartState(initial, s) ==
  [initial EXCEPT !.gameRestart = TRUE, !.highScore = s.highScore]

\* Mutant of pauseState: the game is paused, never resumed.
pauseStateSetsOnly(s) == [s EXCEPT !.gamePause = TRUE, !.gameRestart = FALSE]

\* { ...s, gamePause: !s.gamePause, gameRestart: false }
pauseState(s) == [s EXCEPT !.gamePause = ~s.gamePause, !.gameRestart = FALSE]

\* handleInput(s, currInput) with INITIAL_STATE passed as initial.
handleInput(initial, s, currInput) ==
  IF isMovement(s, currInput)
  THEN WithRestartCleared(updateState(s, currInput.code))
  ELSE IF isPause(currInput, "pauseButton")
  THEN pauseState(s)
  ELSE IF isRestart(currInput, "restartButton")
  THEN restartState(initial, s)
  ELSE IF isHardDrop(s, currInput)
  THEN hardDrop(s, currInput.rng)
  ELSE IF isHold(s, currInput)
  THEN WithRestartCleared(holdState(s, currInput.rng))
  ELSE IF s.gameEnd \/ s.gamePause
       THEN s
       ELSE tick(s, AsNumber(currInput))

(***************************************************************************)
(* The event stream                                                        *)
(*                                                                         *)
(* merge(tickRng$, movements$, mouseclicks$, hardDrop$, holdRng$) feeds    *)
(* one Input at a time to scan(handleInput, INITIAL_STATE).  A run of the  *)
(* model is an opening (a fixed list of inputs, played through the same    *)
(* reducer, that brings the game to a position of interest) followed by at *)
(* most MaxSteps inputs chosen freely.                                     *)
(***************************************************************************)
MaxSteps == 2
\* Free inputs draw their random number from the first NumDraws piece kinds.
NumDraws == 3

\* The numerator whose scaled value selects tetrominoKeys[k] (0-based k).
Draw(k) == k * ((RNG_m - 1) \div Len(tetrominoKeys))
AllDraws == {Draw(k) : k \in 0..(Len(tetrominoKeys) - 1)}
FreeDraws == {Draw(k) : k \in 0..(NumDraws - 1)}

\* The draw that selects the piece kind key.
DrawOf(key) == Draw((CHOOSE i \in 1..Len(tetrominoKeys) : tetrominoKeys[i] = key) - 1)

Left == KeyInput("ArrowLeft")
Right == KeyInput("ArrowRight")
Down == KeyInput("ArrowDown")
Up == KeyInput("ArrowUp")
Drop(key) == PairInput(DrawOf(key), "Space")
HoldKey(key) == PairInput(DrawOf(key), "KeyC")
TickOf(key) == TickInput(DrawOf(key))
PauseClick == ClickInput("pauseButton")
RestartClick == ClickInput("restartButton")
Rep(e, n) == [i \in 1..n |-> e]

\* Two rows cleared with five pieces: I at columns 0..3, I at 4..7, O at 8..9
\* (row 19 clears, the upper half of O falls to row 19), I at 0..3, I at 4..7
\* (row 19 clears again, the grid is empty).  Each hard drop draws the piece
\* that comes two places later in the cycle.
TwoRowCycle ==
  Rep(Left, 3) \o <<Drop("O")>> \o <<Right, Drop("I")>>
  \o Rep(Right, 4) \o <<Drop("I")>>
  \o Rep(Left, 3) \o <<Drop("I")>> \o <<Right, Drop("I")>>

\* Score 900, then I at columns 0..3 of row 19 beside the half O, and the
\* active I moved above columns 4..7: one hard drop away from score 1000.
NineHundred ==
  TwoRowCycle \o TwoRowCycle \o TwoRowCycle \o TwoRowCycle
  \o Rep(Left, 3) \o <<Drop("O")>> \o <<Right, Drop("I")>>
  \o Rep(Right, 4) \o <<Drop("I")>>
  \o Rep(Left, 3) \o <<Drop("I")>> \o <<Right>>

\* Ten O pieces dropped at the spawn columns fill columns 4..5 up to row 0;
\* the pieces then in play are a (active) and b (next).
TowerThen(a, b) == Rep(Drop("O"), 8) \o <<Drop(a), Drop(b)>>

Opening(cur, next, events) == [cur |-> cur, next |-> next, events |-> events]

Openings ==
  \* a new game, each kind once as the active and once as the next piece
  { Opening(tetrominoKeys[k], tetrominoKeys[((k + 2) % 7) + 1], <<>>) : k \in 1..7 }
  \cup
  { \* J and L leave row 19 complete but for columns 3..6, the active I fits
    Opening("J", "L", Rep(Left, 4) \o <<Drop("I")>> \o Rep(Right, 3) \o <<Drop("T")>>),
    \* the same with the I brought down to the floor by twenty ArrowDown
    Opening("J", "L", Rep(Left, 4) \o <<Drop("I")>> \o Rep(Right, 3) \o <<Drop("T")>>
                      \o Rep(Down, 20)),
    \* score 900, one hard drop from 1000; and score 1000 reached
    Opening("I", "I", NineHundred),
    Opening("I", "I", NineHundred \o <<Drop("J")>>),
    \* the stack reaches row 0 under the spawn columns
    Opening("O", "O", TowerThen("I", "O")),
    Opening("O", "O", TowerThen("T", "I")),
    Opening("O", "O", TowerThen("O", "J") \o <<TickOf("I")>>),
    Opening("O", "O", Rep(Drop("O"), 7) \o <<Drop("S"), Drop("Z")>>),
    \* a vertical I against the right wall, a vertical T against the left wall,
    \* a flat I on the floor
    Opening("I", "S", <<Up>> \o Rep(Right, 4)),
    Opening("T", "Z", <<Up>> \o Rep(Left, 5)),
    Opening("I", "L", Rep(Down, 20)),
    \* T one row above an O on the floor; T beside that O
    Opening("O", "T", <<Drop("Z")>> \o Rep(Down, 17)),
    Opening("O", "T", <<Drop("S")>> \o Rep(Left, 3) \o Rep(Down, 19)),
    \* a piece moved and turned, and a piece already held
    Opening("L", "S", <<Up, Left, Down>>),
    Opening("S", "I", <<Up, Up, Up, Down>>),
    Opening("Z", "J", <<HoldKey("O"), Up, Right, Down, Down>>),
    \* a vertical I against the left wall; and a vertical I on the floor in
    \* column 0 beside a vertical I settled in column 1
    Opening("I", "S", <<Up>> \o Rep(Left, 5)),
    Opening("I", "I", <<Up>> \o Rep(Left, 4) \o <<Drop("L")>>
                      \o <<Up>> \o Rep(Left, 5) \o Rep(Down, 18)),
    \* score 1000, a Restart, then one row cleared and a piece held
    Opening("I", "I", NineHundred \o <<Drop("J"), RestartClick>>
                      \o Rep(Left, 3) \o <<Drop("O")>> \o <<Right, Drop("I")>>
                      \o Rep(Right, 4) \o <<Drop("I"), HoldKey("T")>>),
    \* an O at the left wall, turned three times and brought to the floor
    Opening("O", "J", Rep(Left, 4) \o <<Up, Up, Up>> \o Rep(Down, 20)),
    \* two I pieces hard-dropped at their spawn columns, a third in play
    Opening("I", "I", <<Drop("I"), Drop("I")>>),
    \* ten O pieces fill columns 2..3 up to row 0; the T is brought to the
    \* left wall, turned to orientation 3, lowered one row beside the stack
    \* and turned again (the kick that applies is [0, -2]), then moved right
    \* above the stack
    Opening("O", "O", Rep(Left, 2) \o <<Drop("O")>> \o Rep(Left, 2) \o <<Drop("O")>>
                      \o Rep(Left, 2) \o <<Drop("O")>> \o Rep(Left, 2) \o <<Drop("O")>>
                      \o Rep(Left, 2) \o <<Drop("O")>> \o Rep(Left, 2) \o <<Drop("O")>>
                      \o Rep(Left, 2) \o <<Drop("O")>> \o Rep(Left, 2) \o <<Drop("O")>>
                      \o Rep(Left, 2) \o <<Drop("T")>> \o Rep(Left, 2) \o <<Drop("I")>>
                      \o Rep(Left, 4) \o <<Up, Up, Up, Down, Up>> \o Rep(Right, 4)) }

VARIABLES
  initial,   \* INITIAL_STATE, fixed when the module is loaded
  s,         \* the accumulator of scan: the current State
  prev,      \* the State before the last input (history)
  ev,        \* the last input processed (history)
  prev2,     \* the State before the last two inputs (history)
  ev2,       \* the input processed before the last one (history)
  best,      \* the greatest score of any State since the page was loaded (history)
  thrown,    \* handleInput threw: the stream has ended with an error
  script,    \* the inputs of the opening still to come
  steps,     \* the number of free inputs processed
  call       \* a pure function applied on its own: its name, argument, result

vars == <<initial, s, prev, ev, prev2, ev2, best, thrown, script, steps, call>>

NoCall == [fn |-> "none"]

Init ==
  \E o \in Openings :
    /\ initial = InitialStateOf(DrawOf(o.cur), DrawOf(o.next))
    /\ s = initial
    /\ prev = initial
    /\ ev = [type |-> "none"]
    /\ prev2 = initial
    /\ ev2 = [type |-> "none"]
    /\ best = initial.score
    /\ thrown = FALSE
    /\ script = o.events
    /\ steps = 0
    /\ call = NoCall

Allowed(input) ==
  IF script # <<>>
  THEN input = Head(script)
  ELSE /\ steps < MaxSteps
       /\ input.type \in {"number", "Array"} => input.rng \in FreeDraws

\* One emission of source$: scan applies handleInput to the accumulator.
Process(input) ==
  /\ ~thrown
  /\ Allowed(input)
  /\ LET r == handleInput(initial, s, input)
     IN IF r = TypeError
        THEN thrown' = TRUE /\ s' = s
        ELSE thrown' = FALSE /\ s' = r
  /\ prev' = s
  /\ ev' = input
  /\ prev2' = prev
  /\ ev2' = ev
  /\ best' = IF s'.score > best THEN s'.score ELSE best
  /\ script' = IF script # <<>> THEN Tail(script) ELSE script
  /\ steps' = IF script # <<>> THEN steps ELSE steps + 1
  /\ UNCHANGED <<initial, call>>

Tick == \E r \in AllDraws : Process(TickInput(r))
MoveLeft == Process(Left)
MoveRight == Process(Right)
MoveDown == Process(Down)
Rotate == Process(Up)
HardDrop == \E r \in AllDraws : Process(PairInput(r, "Space"))
Hold == \E r \in AllDraws : Process(PairInput(r, "KeyC"))
Pause == Process(PauseClick)
Restart == Process(RestartClick)

Next ==
  \/ Tick
  \/ MoveLeft
  \/ MoveRight
  \/ MoveDown
  \/ Rotate
  \/ HardDrop
  \/ Hold
  \/ Pause
  \/ Restart

Spec == Init /\ [][Next]_vars

(***************************************************************************)
(* The game left to its ticks: from a position an opening leads to, only   *)
(* tickRng$ emits.  interval(tickRate) never stops emitting, hence the     *)
(* weak fairness of the tick once the opening is played.  The positions    *)
(* are stacks of O pieces under the spawn columns that leave TickFreeRows  *)
(* rows or fewer free.                                                     *)
(***************************************************************************)
TickFreeRows == 2

TickStarts ==
  { Opening("O", "O", Rep(Drop("O"), 8 - (free \div 2)) \o <<Drop(a), Drop(b)>>) :
      free \in {0, TickFreeRows}, a \in {"I", "O"}, b \in {"I", "T"} }

InitTicks ==
  \E o \in TickStarts :
    /\ initial = InitialStateOf(DrawOf(o.cur), DrawOf(o.next))
    /\ s = initial
    /\ prev = initial
    /\ ev = [type |-> "none"]
    /\ prev2 = initial
    /\ ev2 = [type |-> "none"]
    /\ best = initial.score
    /\ thrown = FALSE
    /\ script = o.events
    /\ steps = 0
    /\ call = NoCall

\* The next input of the opening.
OpeningStep ==
  /\ script # <<>>
  /\ Process(Head(script))

\* One emission of tickRng$, the only input once the opening is played.
\* The ticks are counted modulo 2, so that a tick that leaves the State as it
\* was is still a step.
TickOnly ==
  /\ script = <<>>
  /\ ~thrown
  /\ \E r \in FreeDraws :
       /\ LET out == handleInput(initial, s, TickInput(r))
          IN IF out = TypeError
             THEN thrown' = TRUE /\ s' = s
             ELSE thrown' = FALSE /\ s' = out
       /\ ev' = TickInput(r)
       /\ best' = IF s'.score > best THEN s'.score ELSE best
  /\ prev' = s
  /\ prev2' = prev
  /\ ev2' = ev
  /\ steps' = (steps + 1) % 2
  /\ UNCHANGED <<initial, script, call>>

NextTicks ==
  \/ OpeningStep
  \/ TickOnly

SpecTicks == InitTicks /\ [][NextTicks]_vars /\ WF_vars(TickOnly)

(***************************************************************************)
(* clearCompletedRows applied on its own to grids drawn from a bounded     *)
(* set: the lowest MaxStackRows rows are each complete, complete but for   *)
(* the last column, occupied in the first column only, or empty.           *)
(***************************************************************************)
MaxStackRows == 4

RowPatterns ==
  { [c \in 1..GRID_WIDTH |-> 1],
    [c \in 1..GRID_WIDTH |-> IF c < GRID_WIDTH THEN 1 ELSE 0],
    [c \in 1..GRID_WIDTH |-> IF c = 1 THEN 1 ELSE 0],
    [c \in 1..GRID_WIDTH |-> 0] }

ClearInputs ==
  { [r \in 1..GRID_HEIGHT |->
       IF r <= GRID_HEIGHT - MaxStackRows
       THEN [c \in 1..GRID_WIDTH |-> 0]
       ELSE f[r - (GRID_HEIGHT - MaxStackRows)]] :
      f \in [1..MaxStackRows -> RowPatterns] }

InitClear ==
  /\ initial = InitialStateOf(DrawOf("I"), DrawOf("I"))
  /\ s = initial
  /\ prev = initial
  /\ ev = [type |-> "none"]
  /\ prev2 = initial
  /\ ev2 = [type |-> "none"]
  /\ best = initial.score
  /\ thrown = FALSE
  /\ script = <<>>
  /\ steps = 0
  /\ \E g \in ClearInputs :
       call = [fn |-> "clearCompletedRows", arg |-> g, done |-> FALSE, result |-> <<>>]

ApplyClear ==
  /\ call.fn = "clearCompletedRows"
  /\ ~call.done
  /\ call' = [call EXCEPT !.done = TRUE, !.result = clearCompletedRows(call.arg)]
  /\ UNCHANGED <<initial, s, prev, ev, prev2, ev2, best, thrown, script, steps>>

NextClear == ApplyClear

SpecClear == InitClear /\ [][NextClear]_vars

(***************************************************************************)
(* RNG.scale and getRandomTetromino applied on their own to hash values    *)
(* drawn from a bounded set: the values within HashSpread of a multiple of *)
(* (m - 1) / 7, from 0 up to m - 1, the range of x % m.                    *)
(***************************************************************************)
HashSpread == 4

HashSamples ==
  { k * ((RNG_m - 1) \div Len(tetrominoKeys)) + d :
      k \in 0..(Len(tetrominoKeys) - 1), d \in 0..HashSpread }
  \cup
  { k * ((RNG_m - 1) \div Len(tetrominoKeys)) - d :
      k \in 1..Len(tetrominoKeys), d \in 0..HashSpread }

InitRng ==
  /\ initial = InitialStateOf(DrawOf("I"), DrawOf("I"))
  /\ s = initial
  /\ prev = initial
  /\ ev = [type |-> "none"]
  /\ prev2 = initial
  /\ ev2 = [type |-> "none"]
  /\ best = initial.score
  /\ thrown = FALSE
  /\ script = <<>>
  /\ steps = 0
  /\ \E h \in HashSamples :
       call = [rng |-> scale(0), fn |-> "getRandomTetromino", arg |-> h,
               done |-> FALSE, result |-> TypeError]

\* getRandomTetromino(RNG.scale(hash))
ApplyRng ==
  /\ call.fn = "getRandomTetromino"
  /\ ~call.done
  /\ call' = [call EXCEPT
                !.done = TRUE,
                !.rng = scale(call.arg),
                !.result = getRandomTetromino(scale(call.arg).num)]
  /\ UNCHANGED <<initial, s, prev, ev, prev2, ev2, best, thrown, script, steps>>

NextRng == ApplyRng

SpecRng == InitRng /\ [][NextRng]_vars

(***************************************************************************)
(* isCollision and isOutOfBounds applied on their own to the same           *)
(* placement: every piece kind in every orientation,                       *)
(* anchored from CollisionMargin columns left of the grid to               *)
(* CollisionMargin columns right of it and from above the top to below the *)
(* floor, on an empty grid, a grid with columns 4..5 full, a grid with     *)
(* row 0 full and a checkerboard.                                          *)
(***************************************************************************)
CollisionMargin == 4

CollisionShapes ==
  UNION { { TetrominoShapes[tetrominoKeys[k]],
            rotateMatrix(TetrominoShapes[tetrominoKeys[k]]),
            rotateMatrix(rotateMatrix(TetrominoShapes[tetrominoKeys[k]])),
            rotateMatrix(rotateMatrix(rotateMatrix(TetrominoShapes[tetrominoKeys[k]]))) } :
          k \in 1..Len(tetrominoKeys) }

CollisionGrids ==
  { EmptyGrid,
    [r \in 1..GRID_HEIGHT |-> [c \in 1..GRID_WIDTH |-> IF c \in {5, 6} THEN 1 ELSE 0]],
    [r \in 1..GRID_HEIGHT |-> [c \in 1..GRID_WIDTH |-> IF r = 1 THEN 1 ELSE 0]],
    [r \in 1..GRID_HEIGHT |-> [c \in 1..GRID_WIDTH |-> (r + c) % 2]] }

InitCollision ==
  /\ initial = InitialStateOf(DrawOf("I"), DrawOf("I"))
  /\ s = initial
  /\ prev = initial
  /\ ev = [type |-> "none"]
  /\ prev2 = initial
  /\ ev2 = [type |-> "none"]
  /\ best = initial.score
  /\ thrown = FALSE
  /\ script = <<>>
  /\ steps = 0
  /\ \E x \in (-CollisionMargin)..(GRID_WIDTH - 1 + CollisionMargin) :
       \E y \in (-CollisionMargin - 2)..(GRID_HEIGHT - 1 + CollisionMargin) :
         \E shape \in CollisionShapes :
           \E grid \in CollisionGrids :
             call = [x |-> x, y |-> y, shape |-> shape, grid |-> grid,
                     fn |-> "isCollision", done |-> FALSE, result |-> FALSE,
                     reads |-> {}, outOfBounds |-> FALSE]

ApplyCollision ==
  /\ call.fn = "isCollision"
  /\ ~call.done
  /\ call' = [call EXCEPT
                !.done = TRUE,
                !.reads = isCollisionReads(call.x, call.y, call.shape),
                !.result = isCollision(call.x, call.y, call.shape, call.grid),
                !.outOfBounds = isOutOfBounds(call.x, call.y, call.shape)]
  /\ UNCHANGED <<initial, s, prev, ev, prev2, ev2, best, thrown, script, steps>>

NextCollision == ApplyCollision

SpecCollision == InitCollision /\ [][NextCollision]_vars

(***************************************************************************)
(* resetPosition applied on its own to a piece of every kind, in every     *)
(* orientation, at every anchor from ResetMargin columns left of the grid  *)
(* to its last column and from the spawn row to the floor.                 *)
(***************************************************************************)
ResetMargin == 2

RECURSIVE rotateTimes(_, _)
rotateTimes(matrix, n) == IF n = 0 THEN matrix ELSE rotateTimes(rotateMatrix(matrix), n - 1)

ResetInputs ==
  { [ x |-> x,
      y |-> y,
      shape |-> rotateTimes(TetrominoShapes[tetrominoKeys[k]], o),
      key |-> tetrominoKeys[k],
      orientation |-> o,
      colour |-> TetrominoColours[tetrominoKeys[k]] ] :
      k \in 1..Len(tetrominoKeys), o \in 0..3,
      x \in (-ResetMargin)..(GRID_WIDTH - 1), y \in (-2)..(GRID_HEIGHT - 1) }

InitReset ==
  /\ initial = InitialStateOf(DrawOf("I"), DrawOf("I"))
  /\ s = initial
  /\ prev = initial
  /\ ev = [type |-> "none"]
  /\ prev2 = initial
  /\ ev2 = [type |-> "none"]
  /\ best = initial.score
  /\ thrown = FALSE
  /\ script = <<>>
  /\ steps = 0
  /\ \E tetromino \in ResetInputs :
       call = [drawn |-> tetromino, fn |-> "resetPosition", arg |-> tetromino,
               done |-> FALSE, result |-> tetromino, again |-> tetromino]

\* resetPosition(t), resetPosition(resetPosition(t)) and the piece
\* getRandomTetromino gives for a random number selecting the kind of t.
ApplyReset ==
  /\ call.fn = "resetPosition"
  /\ ~call.done
  /\ call' = [call EXCEPT
                !.done = TRUE,
                !.result = resetPosition(call.arg),
                !.again = resetPosition(resetPosition(call.arg)),
                !.drawn = getRandomTetromino(DrawOf(call.arg.key))]
  /\ UNCHANGED <<initial, s, prev, ev, prev2, ev2, best, thrown, script, steps>>

NextReset == ApplyReset

SpecReset == InitReset /\ [][NextReset]_vars

(***************************************************************************)
(* The tick interval of rate$ (src/main.ts), computed for the levels from  *)
(* 0 to MaxLevel.                                                          *)
(***************************************************************************)
MaxLevel == 60

\* Mutant of rate: the interval is not floored.
rateUnfloored(level) == TICK_RATE_MS - (level * TICKRATE_INCREMENT)

\* Math.max(TICK_RATE_MS - level * TICKRATE_INCREMENT, MINIMUM_TICKRATE)
rate(level) ==
  IF TICK_RATE_MS - (level * TICKRATE_INCREMENT) > MINIMUM_TICKRATE
  THEN TICK_RATE_MS - (level * TICKRATE_INCREMENT)
  ELSE MINIMUM_TICKRATE

InitRate ==
  /\ initial = InitialStateOf(DrawOf("I"), DrawOf("I"))
  /\ s = initial
  /\ prev = initial
  /\ ev = [type |-> "none"]
  /\ prev2 = initial
  /\ ev2 = [type |-> "none"]
  /\ best = initial.score
  /\ thrown = FALSE
  /\ script = <<>>
  /\ steps = 0
  /\ \E level \in 0..MaxLevel :
       call = [fn |-> "rate", arg |-> level, done |-> FALSE, result |-> 0, higher |-> 0]

\* The interval of the level and of the level above it.
ApplyRate ==
  /\ call.fn = "rate"
  /\ ~call.done
  /\ call' = [call EXCEPT
                !.done = TRUE,
                !.result = rate(call.arg),
                !.higher = rate(call.arg + 1)]
  /\ UNCHANGED <<initial, s, prev, ev, prev2, ev2, best, thrown, script, steps>>

NextRate == ApplyRate

SpecRate == InitRate /\ [][NextRate]_vars

(***************************************************************************)
(* Vocabulary of the properties, stated on cells rather than through the   *)
(* reducer's own predicates.                                               *)
(***************************************************************************)
\* The <<row, column>> grid coordinates of the occupied cells of a piece.
CellsOf(t) ==
  { <<t.y + q[1] - 1, t.x + q[2] - 1>> :
      q \in { rc \in (1..Len(t.shape)) \X (1..Len(t.shape[1])) :
                t.shape[rc[1]][rc[2]] = 1 } }

\* No occupied cell outside columns 0..9, at a row >= 20, or on an occupied
\* grid cell at a row >= 0.
LegalPlacement(t, grid) ==
  \A cell \in CellsOf(t) :
    /\ cell[2] \in 0..(GRID_WIDTH - 1)
    /\ cell[1] < GRID_HEIGHT
    /\ cell[1] >= 0 => grid[cell[1] + 1][cell[2] + 1] = 0

Shifted(t, dx, dy) == [t EXCEPT !.x = @ + dx, !.y = @ + dy]

\* One more row down is not a legal placement.
Resting(t, grid) == ~LegalPlacement(Shifted(t, 0, 1), grid)

Running(st) == ~st.gameEnd /\ ~st.gamePause

IsTick == ev.type = "number"
IsKey == ev.type = "KeyboardEvent"
IsPair == ev.type = "Array"

\* All fields but gameRestart agree.
SameButRestartFlag(a, b) == [a EXCEPT !.gameRestart = FALSE] = [b EXCEPT !.gameRestart = FALSE]

(***************************************************************************)
(* C1                                                                      *)
(***************************************************************************)
\* C1: in every reachable state the active piece is in a legal placement: no
\* occupied cell of its shape is in a column outside 0..9, at a row >= 20, or
\* on an occupied grid cell at a row >= 0 (after moves, rotations, settles,
\* holds, pauses and restarts alike).
C1_ActivePieceLegal == LegalPlacement(s.currentTetromino, s.grid)

\* An ArrowDown in a running game was rejected because the row below holds a
\* settled cell.
C1_Witness ==
  /\ ev = Down
  /\ Running(prev)
  /\ s.currentTetromino = prev.currentTetromino
  /\ \E cell \in CellsOf(Shifted(prev.currentTetromino, 0, 1)) :
       /\ cell[1] \in 0..(GRID_HEIGHT - 1)
       /\ cell[2] \in 0..(GRID_WIDTH - 1)
       /\ prev.grid[cell[1] + 1][cell[2] + 1] = 1

(***************************************************************************)
(* C2                                                                      *)
(***************************************************************************)
\* C2: in every reachable state the grid has exactly 20 rows of exactly 10
\* cells and every cell is 0 or 1: the additive merge never yields a 2.
C2_GridWellFormed ==
  /\ Len(s.grid) = GRID_HEIGHT
  /\ \A r \in 1..Len(s.grid) :
       /\ Len(s.grid[r]) = GRID_WIDTH
       /\ \A c \in 1..Len(s.grid[r]) : s.grid[r][c] \in {0, 1}

\* A tick merged a piece that rested on settled cells (not on the floor).
C2_Witness ==
  /\ IsTick
  /\ Running(prev)
  /\ Resting(prev.currentTetromino, prev.grid)
  /\ \A cell \in CellsOf(prev.currentTetromino) : cell[1] + 1 < GRID_HEIGHT
  /\ s.grid # prev.grid
  /\ \A cell \in CellsOf(prev.currentTetromino) :
       cell[1] >= 0 /\ s.grid[cell[1] + 1][cell[2] + 1] = 1

(***************************************************************************)
(* C3                                                                      *)
(***************************************************************************)
\* C3: on a tick where the active piece is settled and any occupied cell of
\* the piece is at a row < 0, the game transitions to Ended and nothing is
\* merged: grid, score, level, high score, active and next piece are
\* unchanged by that tick, for every piece kind and orientation.
C3_SettledAboveTopEnds ==
  ( /\ IsTick
    /\ Running(prev)
    /\ Resting(prev.currentTetromino, prev.grid)
    /\ \E cell \in CellsOf(prev.currentTetromino) : cell[1] < 0 )
  => /\ s.gameEnd
     /\ s.grid = prev.grid
     /\ s.score = prev.score
     /\ s.level = prev.level
     /\ s.highScore = prev.highScore
     /\ s.currentTetromino = prev.currentTetromino
     /\ s.nextTetromino = prev.nextTetromino

(***************************************************************************)
(* C4                                                                      *)
(***************************************************************************)
\* C4: a tick, move, rotate, hard-drop or hold input processed in a state
\* where gamePause or gameEnd is set returns the state entirely unchanged;
\* and once gameEnd is set it stays set until a Restart click.
C4_GatedWhenPausedOrEnded ==
  /\ ((IsTick \/ IsKey \/ IsPair) /\ (prev.gamePause \/ prev.gameEnd)) => s = prev
  /\ (ev.type # "none" /\ prev.gameEnd /\ ev # RestartClick) => s.gameEnd

\* A hard drop arrived in an ended game and left the state as it was.
C4_Witness ==
  /\ IsPair
  /\ ev.code = "Space"
  /\ prev.gameEnd
  /\ s = prev

(***************************************************************************)
(* C5                                                                      *)
(***************************************************************************)
\* The grid with 1 added on every cell the piece covers inside the grid.
MergedGrid(grid, t) ==
  [r \in 1..GRID_HEIGHT |->
     [c \in 1..GRID_WIDTH |->
        grid[r][c] + (IF <<r - 1, c - 1>> \in CellsOf(t) THEN 1 ELSE 0)]]

\* The (1-based) rows whose cells are all 1.
CompleteRows(g) == {r \in 1..Len(g) : \A c \in 1..Len(g[r]) : g[r][c] = 1}

\* The j-th row, from the top, that is not complete.
KthSurvivor(g, j) ==
  CHOOSE r \in (1..Len(g)) \ CompleteRows(g) :
    Cardinality({q \in (1..Len(g)) \ CompleteRows(g) : q <= r}) = j

\* The complete rows taken out and as many zero rows put on top.
RowsCleared(g) ==
  LET k == Cardinality(CompleteRows(g))
  IN [i \in 1..Len(g) |->
        IF i <= k THEN [c \in 1..GRID_WIDTH |-> 0] ELSE g[KthSurvivor(g, i - k)]]

\* The piece of a kind as it enters play.
SpawnPiece(key) ==
  [ x |-> 5 - (Len(TetrominoShapes[key][1]) \div 2), y |-> -2,
    shape |-> TetrominoShapes[key],
    key |-> key, orientation |-> 0, colour |-> TetrominoColours[key] ]

\* The kind a random number selects: the i-th kind for the i-th seventh of [0, 1).
KindDrawn(rng) ==
  tetrominoKeys[CHOOSE i \in 1..7 : Draw(i - 1) <= rng /\ rng < Draw(i)]

\* C5: on a tick where the active piece is settled and the game does not
\* end, grid = merged grid with all complete rows cleared, score = old score
\* + 100 * rows cleared, level = floor(score / 1000), highScore = max(old
\* highScore, score), active piece = the former next piece, next piece = the
\* piece the tick's rng selects; one completed row adds exactly 100, none
\* leaves score, level and high score unchanged.
C5_SettleTick ==
  (IsTick /\ Running(prev) /\ Resting(prev.currentTetromino, prev.grid) /\ ~s.gameEnd)
  => LET merged == MergedGrid(prev.grid, prev.currentTetromino)
         k == Cardinality(CompleteRows(merged))
         newScore == prev.score + 100 * k
     IN /\ s.grid = RowsCleared(merged)
        /\ s.score = newScore
        /\ s.level * 1000 <= newScore /\ newScore < (s.level + 1) * 1000
        /\ s.highScore >= prev.highScore /\ s.highScore >= newScore
        /\ s.highScore \in {prev.highScore, newScore}
        /\ s.currentTetromino = prev.nextTetromino
        /\ s.nextTetromino = SpawnPiece(KindDrawn(ev.rng))
        /\ k = 1 => s.score = prev.score + 100
        /\ k = 0 => /\ s.score = prev.score
                    /\ s.level = prev.level
                    /\ s.highScore = prev.highScore

\* A tick settled a piece that completed exactly one row.
C5_Witness ==
  /\ IsTick
  /\ Running(prev)
  /\ Resting(prev.currentTetromino, prev.grid)
  /\ Cardinality(CompleteRows(MergedGrid(prev.grid, prev.currentTetromino))) = 1
  /\ s.score = prev.score + 100
  /\ s.grid[1] = [c \in 1..GRID_WIDTH |-> 0]
  /\ s.grid # prev.grid

(***************************************************************************)
(* C6                                                                      *)
(***************************************************************************)
\* C6: in every reachable state level = floor(score / 1000) and
\* highScore >= score, the states produced by Restart, hold, pause and
\* rejected moves included.
C6_LevelAndHighScore ==
  /\ s.level = s.score \div 1000
  /\ s.highScore >= s.score

\* A Restart after score 1000 (level 1) was reached: the high score stays
\* above the new score 0.
C6_Witness ==
  /\ ev = RestartClick
  /\ prev.score = 1000
  /\ prev.level = 1
  /\ s.score = 0
  /\ s.level = 0
  /\ s.highScore = 1000

(***************************************************************************)
(* C7                                                                      *)
(***************************************************************************)
\* C7 as claimed: across any single input other than Restart, score and
\* level never decrease; across every input, Restart included, highScore
\* never decreases; only a settling tick (directly or as the tick inside a
\* hard drop) can change score, level or highScore.
C7_OnlySettlingTickChanges ==
  ev.type # "none"
  => /\ s.highScore >= prev.highScore
     /\ ev # RestartClick => (s.score >= prev.score /\ s.level >= prev.level)
     /\ (s.highScore # prev.highScore \/ s.score # prev.score \/ s.level # prev.level)
        => /\ Running(prev)
           /\ \/ IsTick /\ Resting(prev.currentTetromino, prev.grid)
              \/ IsPair /\ ev.code = "Space"

\* C7 (amended): across any single input other than Restart, score and level
\* never decrease; across every input, Restart included, highScore never
\* decreases; and, Restart's reset of score and level apart, only a settling
\* tick (a tick on a resting piece, or the tick inside a hard drop) in a
\* running game changes score, level or highScore.
C7_Monotonic ==
  ev.type # "none"
  => /\ s.highScore >= prev.highScore
     /\ ev # RestartClick => (s.score >= prev.score /\ s.level >= prev.level)
     /\ s.highScore # prev.highScore
        \/ (ev # RestartClick /\ (s.score # prev.score \/ s.level # prev.level))
        => /\ Running(prev)
           /\ \/ IsTick /\ Resting(prev.currentTetromino, prev.grid)
              \/ IsPair /\ ev.code = "Space"

\* A hard drop took the score from 900 to 1000 and the level from 0 to 1.
C7_Witness ==
  /\ IsPair
  /\ ev.code = "Space"
  /\ prev.score = 900
  /\ s.score = 1000
  /\ prev.level = 0
  /\ s.level = 1
  /\ s.highScore = 1000

(***************************************************************************)
(* C8 (checked under SpecClear)                                            *)
(***************************************************************************)
\* C8: clearCompletedRows on a grid with k complete rows returns count k and
\* a grid of the same height made of k all-zero rows followed by the
\* non-complete rows of the input in their original order; for k = 0 it
\* returns the input rows unchanged and count 0.
C8_ClearCompletedRows ==
  (call.fn = "clearCompletedRows" /\ call.done)
  => LET g == call.arg
         k == Cardinality(CompleteRows(g))
         out == call.result[1]
     IN /\ call.result[2] = k
        /\ Len(out) = Len(g)
        /\ \A i \in 1..k : out[i] = [c \in 1..GRID_WIDTH |-> 0]
        /\ \A j \in 1..(Len(g) - k) : out[k + j] = g[KthSurvivor(g, j)]
        /\ k = 0 => out = g

\* Two complete rows with an incomplete, non-empty row between them were
\* cleared.
C8_Witness ==
  /\ call.fn = "clearCompletedRows"
  /\ call.done
  /\ call.result[2] = 2
  /\ CompleteRows(call.arg) = {GRID_HEIGHT - 2, GRID_HEIGHT}
  /\ call.arg[GRID_HEIGHT - 1][1] = 1
  /\ call.result[1][GRID_HEIGHT] = call.arg[GRID_HEIGHT - 1]

(***************************************************************************)
(* C9                                                                      *)
(***************************************************************************)
\* C9: a move left, right or down whose target placement collides or is out
\* of bounds returns the state unchanged; a move whose target is legal
\* changes only the active piece's x by -1/+1 or y by +1.  Stated of
\* updateState on the state before the input, and of the state the reducer
\* yields (which, besides, has the gameRestart flag cleared).
C9_Moves ==
  ((ev = Left \/ ev = Right \/ ev = Down) /\ Running(prev))
  => LET dx == IF ev = Left THEN -1 ELSE IF ev = Right THEN 1 ELSE 0
         dy == IF ev = Down THEN 1 ELSE 0
         target == Shifted(prev.currentTetromino, dx, dy)
     IN IF LegalPlacement(target, prev.grid)
        THEN /\ updateState(prev, ev.code) = [prev EXCEPT !.currentTetromino = target]
             /\ SameButRestartFlag(s, [prev EXCEPT !.currentTetromino = target])
        ELSE /\ updateState(prev, ev.code) = prev
             /\ SameButRestartFlag(s, prev)

\* An ArrowRight was rejected because the target overlaps a settled cell.
C9_Witness ==
  /\ ev = Right
  /\ Running(prev)
  /\ SameButRestartFlag(s, prev)
  /\ \E cell \in CellsOf(Shifted(prev.currentTetromino, 1, 0)) :
       /\ cell[1] \in 0..(GRID_HEIGHT - 1)
       /\ cell[2] \in 0..(GRID_WIDTH - 1)
       /\ prev.grid[cell[1] + 1][cell[2] + 1] = 1

(***************************************************************************)
(* C10                                                                     *)
(***************************************************************************)
\* The matrix turned 90 degrees clockwise: row i of the result is column i
\* of the input read from the bottom up.
RotatedCW(m) ==
  [i \in 1..Len(m[1]) |-> [j \in 1..Len(m) |-> m[Len(m) + 1 - j][i]]]

\* C10: if the clockwise rotation of the active piece at its current anchor
\* is legal, the rotate input yields orientation (old + 1) mod 4, the rotated
\* shape and the same x and y (no wall-kick offset); nothing else changes.
C10_RotateInPlace ==
  (ev = Up /\ Running(prev))
  => LET turned == [prev.currentTetromino EXCEPT
                      !.orientation = (@ + 1) % 4,
                      !.shape = RotatedCW(@)]
     IN LegalPlacement(turned, prev.grid)
        => /\ rotateTetromino(prev) = [prev EXCEPT !.currentTetromino = turned]
           /\ SameButRestartFlag(s, [prev EXCEPT !.currentTetromino = turned])

\* A piece in orientation 3 turned in place back to orientation 0, its shape
\* again the spawn shape of its kind.
C10_Witness ==
  /\ ev = Up
  /\ Running(prev)
  /\ prev.currentTetromino.orientation = 3
  /\ s.currentTetromino.orientation = 0
  /\ s.currentTetromino.shape = TetrominoShapes[s.currentTetromino.key]
  /\ s.currentTetromino.shape # prev.currentTetromino.shape
  /\ s.currentTetromino.x = prev.currentTetromino.x
  /\ s.currentTetromino.y = prev.currentTetromino.y

(***************************************************************************)
(* C11                                                                     *)
(***************************************************************************)
\* The wall-kick offsets listed for a piece kind and an orientation.
KickOffsets(t) == WallKickData[t.key][t.orientation + 1]

\* The piece turned clockwise at its anchor.
Turned(t) == [t EXCEPT !.orientation = (@ + 1) % 4, !.shape = RotatedCW(@)]

\* The places in the list of offsets that give a legal placement of the
\* turned piece.
LegalKicks(t, grid) ==
  {i \in 1..Len(KickOffsets(t)) :
     LegalPlacement(Shifted(Turned(t), KickOffsets(t)[i][1], KickOffsets(t)[i][2]), grid)}

\* C11: if the in-place rotation is illegal, rotateTetromino tries the
\* wall-kick offsets listed for (piece kind, orientation before the rotation)
\* in order and returns the rotated piece displaced by the first offset that
\* gives a legal placement; if no offset does, the state returned equals the
\* input state (orientation, shape, x and y unchanged).
C11_WallKick ==
  (ev = Up /\ Running(prev) /\ ~LegalPlacement(Turned(prev.currentTetromino), prev.grid))
  => LET t == prev.currentTetromino
         legal == LegalKicks(t, prev.grid)
     IN IF legal = {}
        THEN /\ rotateTetromino(prev) = prev
             /\ SameButRestartFlag(s, prev)
        ELSE \E i \in legal :
               /\ \A j \in legal : i <= j
               /\ LET kicked == Shifted(Turned(t), KickOffsets(t)[i][1], KickOffsets(t)[i][2])
                  IN /\ rotateTetromino(prev) = [prev EXCEPT !.currentTetromino = kicked]
                     /\ SameButRestartFlag(s, [prev EXCEPT !.currentTetromino = kicked])

\* A rotation was kicked by an offset that is neither the first nor the last
\* legal one in the list: the first offset was illegal, a later one legal too.
C11_Witness ==
  /\ ev = Up
  /\ Running(prev)
  /\ ~LegalPlacement(Turned(prev.currentTetromino), prev.grid)
  /\ 1 \notin LegalKicks(prev.currentTetromino, prev.grid)
  /\ Cardinality(LegalKicks(prev.currentTetromino, prev.grid)) >= 2
  /\ s.currentTetromino.orientation = (prev.currentTetromino.orientation + 1) % 4
  /\ s.currentTetromino.x # prev.currentTetromino.x

(***************************************************************************)
(* C12                                                                     *)
(***************************************************************************)
\* The lowest y the piece reaches from its place by legal one-row descents.
LowestY(t, grid) ==
  CHOOSE y \in t.y..GRID_HEIGHT :
    /\ \A q \in t.y..y : LegalPlacement([t EXCEPT !.y = q], grid)
    /\ ~LegalPlacement([t EXCEPT !.y = y + 1], grid)

\* C12: dropTetromino(s) returns a state whose active piece is settled, has
\* the x, orientation and shape it has in s, and has for y the lowest
\* position reachable from s by consecutive legal one-row descents, nothing
\* else changed; hardDrop applies exactly one tick to that state, so that the
\* piece locks (it is merged and the next piece promoted) or the game ends
\* within the same input.
C12_DropThenTick ==
  (IsPair /\ ev.code = "Space" /\ Running(prev))
  => LET dropped == dropTetromino(prev)
         t == prev.currentTetromino
     IN /\ dropped = [prev EXCEPT !.currentTetromino.y = LowestY(t, prev.grid)]
        /\ Resting(dropped.currentTetromino, dropped.grid)
        /\ hardDrop(prev, ev.rng) = tick(dropped, ev.rng)
        /\ s = tick(dropped, ev.rng)
        /\ \/ s = [dropped EXCEPT !.gameEnd = TRUE]
           \/ /\ ~s.gameEnd
              /\ s.grid = RowsCleared(MergedGrid(prev.grid, dropped.currentTetromino))
              /\ s.currentTetromino = prev.nextTetromino

\* A hard drop let a piece fall two rows or more onto settled cells above the
\* floor, where it was locked.
C12_Witness ==
  /\ IsPair
  /\ ev.code = "Space"
  /\ Running(prev)
  /\ LowestY(prev.currentTetromino, prev.grid) >= prev.currentTetromino.y + 2
  /\ \A cell \in CellsOf([prev.currentTetromino EXCEPT
                            !.y = LowestY(prev.currentTetromino, prev.grid)]) :
       /\ cell[1] \in 0..(GRID_HEIGHT - 2)
       /\ s.grid[cell[1] + 1][cell[2] + 1] = 1
       /\ prev.grid[cell[1] + 1][cell[2] + 1] = 0
  /\ s.currentTetromino = prev.nextTetromino

(***************************************************************************)
(* C13                                                                     *)
(***************************************************************************)
\* C13: after a hard drop in a running state that does not end the game, the
\* grid differs from the grid before the hard drop and the new active piece
\* is at spawn height (y <= 0): it is the former next piece, at y = -2.
C13_HardDropChangesGrid ==
  (IsPair /\ ev.code = "Space" /\ Running(prev) /\ ~thrown /\ ~s.gameEnd)
  => /\ s.grid # prev.grid
     /\ s.currentTetromino.y <= 0
     /\ s.currentTetromino = prev.nextTetromino
     /\ s.currentTetromino.y = -2

(***************************************************************************)
(* C14                                                                     *)
(***************************************************************************)
IsHoldKey == IsPair /\ ev.code = "KeyC"

\* C14: hold with no held piece: held := the active piece reset to spawn
\* orientation, shape and position, active := the queued next piece, next :=
\* the piece the rng value selects.  Hold with a held piece: active := the
\* held piece reset to spawn defaults, held := the old active piece reset to
\* spawn defaults, the next piece unchanged (no draw).  In both cases grid,
\* score, level and high score are unchanged; and hold is applied on every
\* hold input of a running game, with no cooldown.
C14_Hold ==
  (IsHoldKey /\ Running(prev))
  => /\ IF prev.holdTetromino = Undefined
        THEN /\ s.holdTetromino = SpawnPiece(prev.currentTetromino.key)
             /\ s.currentTetromino = prev.nextTetromino
             /\ s.nextTetromino = SpawnPiece(KindDrawn(ev.rng))
        ELSE /\ s.currentTetromino = SpawnPiece(prev.holdTetromino.key)
             /\ s.holdTetromino = SpawnPiece(prev.currentTetromino.key)
             /\ s.nextTetromino = prev.nextTetromino
     /\ s.grid = prev.grid
     /\ s.score = prev.score
     /\ s.level = prev.level
     /\ s.highScore = prev.highScore
     /\ s.gameEnd = prev.gameEnd
     /\ s.gamePause = prev.gamePause

\* A hold directly after a hold: the first put a piece that had been moved
\* and turned aside and promoted the next piece, the second swapped the two.
C14_Witness ==
  /\ IsHoldKey
  /\ ev2.type = "Array"
  /\ ev2.code = "KeyC"
  /\ Running(prev2)
  /\ prev2.holdTetromino = Undefined
  /\ prev2.currentTetromino # SpawnPiece(prev2.currentTetromino.key)
  /\ prev.holdTetromino = SpawnPiece(prev2.currentTetromino.key)
  /\ prev.currentTetromino.key # prev2.currentTetromino.key
  /\ s.currentTetromino = SpawnPiece(prev2.currentTetromino.key)
  /\ s.holdTetromino = SpawnPiece(prev.currentTetromino.key)
  /\ s.nextTetromino = prev.nextTetromino

(***************************************************************************)
(* C15                                                                     *)
(***************************************************************************)
\* The last two inputs were holds, both applied to a running game.
TwoHolds ==
  /\ IsHoldKey
  /\ ev2.type = "Array"
  /\ ev2.code = "KeyC"
  /\ Running(prev2)
  /\ Running(prev)

\* C15 as claimed: two consecutive hold inputs with no input in between
\* return the active piece to its state before the two holds (same kind,
\* orientation, shape, x and y), for every reachable running state.
C15_TwoHoldsRestore == TwoHolds => s.currentTetromino = prev2.currentTetromino

\* C15 (amended): two consecutive hold inputs with no input in between bring
\* back the kind of piece that was active before the two holds, reset to its
\* spawn orientation, shape and position; the active piece is as it was
\* before the two holds exactly when it was at its spawn defaults then.
C15_TwoHoldsRestoreKind ==
  TwoHolds
  => /\ s.currentTetromino = SpawnPiece(prev2.currentTetromino.key)
     /\ (s.currentTetromino = prev2.currentTetromino)
        <=> (prev2.currentTetromino = SpawnPiece(prev2.currentTetromino.key))

\* Two holds in a game with a piece already held: the active piece, moved
\* and turned before, came back at its spawn place and orientation.
C15_Witness ==
  /\ TwoHolds
  /\ prev2.holdTetromino # Undefined
  /\ prev2.holdTetromino.key # prev2.currentTetromino.key
  /\ prev2.currentTetromino.orientation # 0
  /\ prev2.currentTetromino.y > -2
  /\ s.currentTetromino.key = prev2.currentTetromino.key
  /\ s.currentTetromino.orientation = 0
  /\ s.currentTetromino.y = -2

(***************************************************************************)
(* C16                                                                     *)
(***************************************************************************)
\* Grid, active, next and held piece, score, level, high score and gameEnd
\* agree.
SameBoard(a, b) ==
  /\ a.grid = b.grid
  /\ a.currentTetromino = b.currentTetromino
  /\ a.nextTetromino = b.nextTetromino
  /\ a.holdTetromino = b.holdTetromino
  /\ a.score = b.score
  /\ a.level = b.level
  /\ a.highScore = b.highScore
  /\ a.gameEnd = b.gameEnd

\* C16: a pause click is accepted in every state (running, paused, ended) and
\* flips gamePause; it leaves grid, active, next and held piece, score, level,
\* high score and gameEnd unchanged, so that two consecutive pause clicks
\* restore the paused flag and all of those fields.
C16_PauseToggles ==
  /\ ev = PauseClick
     => /\ s.gamePause = ~prev.gamePause
        /\ SameBoard(s, prev)
  /\ (ev = PauseClick /\ ev2 = PauseClick)
     => /\ s.gamePause = prev2.gamePause
        /\ SameBoard(s, prev2)

\* Two pause clicks in a row in an ended game: paused, then not paused again.
C16_Witness ==
  /\ ev = PauseClick
  /\ ev2 = PauseClick
  /\ prev2.gameEnd
  /\ ~prev2.gamePause
  /\ prev.gamePause
  /\ ~s.gamePause
  /\ s = prev2

(***************************************************************************)
(* C17                                                                     *)
(***************************************************************************)
\* C17: a Restart click in any reachable state (running, paused or ended)
\* yields the initial state (empty grid, score 0, level 0, no held piece,
\* gameEnd false, gamePause false, the pieces of INITIAL_STATE) except that
\* highScore is the highScore of the state before the restart, which is the
\* greatest score reached since the page was loaded, and gameRestart is true.
C17_Restart ==
  ev = RestartClick
  => /\ s = [initial EXCEPT !.gameRestart = TRUE, !.highScore = prev.highScore]
     /\ \A r \in 1..GRID_HEIGHT : \A c \in 1..GRID_WIDTH : s.grid[r][c] = 0
     /\ s.score = 0
     /\ s.level = 0
     /\ s.holdTetromino = Undefined
     /\ ~s.gameEnd
     /\ ~s.gamePause
     /\ s.gameRestart
     /\ s.highScore = prev.highScore
     /\ s.highScore = best

\* A Restart in a paused game with settled cells, a held piece and a score
\* (100) below the high score (1000) of an earlier game.
C17_Witness ==
  /\ ev = RestartClick
  /\ prev.gamePause
  /\ prev.holdTetromino # Undefined
  /\ prev.grid # s.grid
  /\ prev.score = 100
  /\ prev.highScore = 1000
  /\ s.highScore = 1000
  /\ s.score = 0
  /\ ~s.gamePause

(***************************************************************************)
(* C18                                                                     *)
(***************************************************************************)
\* C18: the gameRestart flag is one-shot: it is true in the state a Restart
\* click produces and false in the state produced by the very next input
\* processed, whatever that input is (tick, move, rotate, hard drop, hold or
\* pause); it is never true in a state not immediately produced by Restart.
C18_RestartFlagOneShot ==
  /\ ev = RestartClick => s.gameRestart
  /\ ev # RestartClick => ~s.gameRestart

(***************************************************************************)
(* C19 (checked under SpecRng)                                             *)
(***************************************************************************)
\* C19: for every value h that hash can return (0 <= h <= m - 1, with
\* m = 0x7FFFFFFF), scale(h) = h / (m - 1) lies in [0, 1), so that the piece
\* index floor(scale(h) * 7) is in 0..6 and getRandomTetromino returns one of
\* the 7 defined piece kinds.
C19_ScaledBelowOne ==
  (call.fn = "getRandomTetromino" /\ call.done)
  => /\ 0 <= call.rng.num
     /\ call.rng.num < call.rng.den
     /\ randomIndexOf(call.rng.num) \in 0..6
     /\ \E k \in 1..7 : call.result = SpawnPiece(tetrominoKeys[k])

(***************************************************************************)
(* C20 (checked under SpecCollision)                                       *)
(***************************************************************************)
\* The <<row, column>> an anchor (x, y) gives the occupied cells of a shape.
ShapeCells(x, y, shape) ==
  { <<y + q[1] - 1, x + q[2] - 1>> :
      q \in { rc \in (1..Len(shape)) \X (1..Len(shape[1])) : shape[rc[1]][rc[2]] = 1 } }

\* C20: isCollision(x, y, shape, grid) is true exactly when some occupied
\* cell of the shape maps to a row >= GRID_HEIGHT, or to a column < 0 or
\* >= GRID_WIDTH, or to a row >= 0 whose grid cell is occupied; occupied
\* cells at rows < 0 with a column inside the grid never cause a collision;
\* and the grid is never read at an index outside 0..19 x 0..9.
C20_IsCollision ==
  (call.fn = "isCollision" /\ call.done)
  => LET cells == ShapeCells(call.x, call.y, call.shape)
         Hits(cell) ==
           \/ cell[1] >= 20
           \/ cell[2] < 0
           \/ cell[2] >= 10
           \/ cell[1] >= 0 /\ call.grid[cell[1] + 1][cell[2] + 1] = 1
     IN /\ call.result = (\E cell \in cells : Hits(cell))
        /\ (\A cell \in cells : cell[1] < 0 /\ cell[2] \in 0..9) => ~call.result
        /\ call.result
           => \E cell \in cells : ~(cell[1] < 0 /\ cell[2] \in 0..9) /\ Hits(cell)
        /\ call.reads \subseteq (0..19) \X (0..9)

\* A piece astride the top of the grid, some of its cells above row 0 and
\* beside full columns, the others on free cells of the grid: no collision.
C20_Witness ==
  /\ call.fn = "isCollision"
  /\ call.done
  /\ ~call.result
  /\ \E r \in 1..GRID_HEIGHT : \E c \in 1..GRID_WIDTH : call.grid[r][c] = 1
  /\ \E cell \in ShapeCells(call.x, call.y, call.shape) : cell[1] < 0
  /\ \E cell \in ShapeCells(call.x, call.y, call.shape) : cell[1] >= 0
  /\ call.reads # {}
  /\ Cardinality(call.reads) < Cardinality(ShapeCells(call.x, call.y, call.shape))

(***************************************************************************)
(* C21 (checked under SpecReset)                                           *)
(***************************************************************************)
\* C21: resetPosition(t) returns, for a piece t of any orientation and
\* position, the piece of the same kind and colour with orientation 0, the
\* spawn shape of the kind, x = 5 - floor(width / 2) and y = -2, which is
\* exactly the piece getRandomTetromino produces for that kind; and
\* resetPosition is idempotent.
C21_ResetPosition ==
  (call.fn = "resetPosition" /\ call.done)
  => /\ call.result.key = call.arg.key
     /\ call.result.colour = call.arg.colour
     /\ call.result.orientation = 0
     /\ call.result.shape = TetrominoShapes[call.arg.key]
     /\ call.result.x = 5 - (Len(TetrominoShapes[call.arg.key][1]) \div 2)
     /\ call.result.y = -2
     /\ call.result = call.drawn
     /\ call.again = call.result

\* A piece turned twice, on the floor off its spawn column, was reset.
C21_Witness ==
  /\ call.fn = "resetPosition"
  /\ call.done
  /\ call.arg.orientation = 2
  /\ call.arg.shape # TetrominoShapes[call.arg.key]
  /\ call.arg.y > 0
  /\ call.arg.x # call.result.x
  /\ call.result.orientation = 0
  /\ call.result.shape = TetrominoShapes[call.arg.key]
  /\ call.result.y = -2

(***************************************************************************)
(* C22                                                                     *)
(***************************************************************************)
\* C22: on a tick in a running state (not paused, not ended) where the active
\* piece is not settled, the piece's y increases by exactly 1 and gameRestart
\* becomes false; the piece's x, shape and orientation, the grid, score,
\* level, high score, next and held piece are unchanged.
C22_TickDescends ==
  (IsTick /\ Running(prev) /\ ~Resting(prev.currentTetromino, prev.grid))
  => /\ s.currentTetromino.y = prev.currentTetromino.y + 1
     /\ ~s.gameRestart
     /\ s.currentTetromino = [prev.currentTetromino EXCEPT !.y = @ + 1]
     /\ s.grid = prev.grid
     /\ s.score = prev.score
     /\ s.level = prev.level
     /\ s.highScore = prev.highScore
     /\ s.nextTetromino = prev.nextTetromino
     /\ s.holdTetromino = prev.holdTetromino
     /\ s.gameEnd = prev.gameEnd
     /\ s.gamePause = prev.gamePause

\* The tick directly after a Restart click: the piece went down one row and
\* the gameRestart flag, set by the Restart, was cleared.
C22_Witness ==
  /\ IsTick
  /\ ev2 = RestartClick
  /\ Running(prev)
  /\ prev.gameRestart
  /\ ~s.gameRestart
  /\ s.currentTetromino.y = prev.currentTetromino.y + 1
  /\ s.currentTetromino.y = -1

(***************************************************************************)
(* C23                                                                     *)
(***************************************************************************)
IsHardDrop == IsPair /\ ev.code = "Space"

\* C23 as claimed: for every reachable state, the descent of a hard drop
\* (dropTetromino) terminates and makes at most GRID_HEIGHT (20) one-row
\* moves down.
C23_DropWithinGridHeight ==
  (IsHardDrop /\ Running(prev))
  => /\ dropSteps(prev) \in 0..GRID_HEIGHT
     /\ dropTetromino(prev).currentTetromino.y = prev.currentTetromino.y + dropSteps(prev)

\* C23 (amended): for every reachable state, the descent of a hard drop
\* terminates and makes at most GRID_HEIGHT - 2 - y one-row moves down, y
\* being the row of the piece's anchor before the drop: at most 20 for a
\* piece at the spawn row -2 or below it, more for a piece a wall kick has
\* lifted above the spawn row.
C23_DropWithinReach ==
  (IsHardDrop /\ Running(prev))
  => /\ dropSteps(prev) \in 0..(GRID_HEIGHT - 2 - prev.currentTetromino.y)
     /\ dropTetromino(prev).currentTetromino.y = prev.currentTetromino.y + dropSteps(prev)
     /\ prev.currentTetromino.y >= -2 => dropSteps(prev) <= GRID_HEIGHT

\* A hard drop of a piece at the spawn row down to the floor of an empty
\* column range: twenty moves.
C23_Witness ==
  /\ IsHardDrop
  /\ Running(prev)
  /\ prev.currentTetromino.y = -2
  /\ dropSteps(prev) = 20
  /\ \E c \in 1..GRID_WIDTH : s.grid[GRID_HEIGHT][c] = 1 /\ prev.grid[GRID_HEIGHT][c] = 0

(***************************************************************************)
(* C24                                                                     *)
(***************************************************************************)
\* The number of occupied cells of a grid.
Occupied(g) ==
  Cardinality({rc \in (1..GRID_HEIGHT) \X (1..GRID_WIDTH) : g[rc[1]][rc[2]] = 1})

\* The grid whose occupied cells are columns 3..6 of the rows from top down
\* to the floor.
ColumnsThreeToSix(top) ==
  [r \in 1..GRID_HEIGHT |->
     [c \in 1..GRID_WIDTH |-> IF r - 1 >= top /\ c - 1 \in 3..6 THEN 1 ELSE 0]]

\* C24: when a tick (on its own or inside a hard drop) settles and merges a
\* piece and the game is not ended, every occupied cell of the piece is
\* occupied in the grid before the rows are cleared, so that the number of
\* occupied grid cells after the tick is the number before + 4 - 10 * (rows
\* cleared); e.g. three I pieces hard-dropped without sideways movement on an
\* empty grid leave rows 19, 18 and 17 occupied in columns 3..6, score 0.
C24_MergeKeepsCells ==
  /\ ( /\ \/ IsTick /\ Resting(prev.currentTetromino, prev.grid)
          \/ IsHardDrop
       /\ Running(prev)
       /\ ~s.gameEnd )
     => LET landed == dropTetromino(prev).currentTetromino
            merged == MergedGrid(prev.grid, landed)
        IN /\ \A cell \in CellsOf(landed) :
                /\ cell[1] \in 0..(GRID_HEIGHT - 1)
                /\ merged[cell[1] + 1][cell[2] + 1] = 1
           /\ Occupied(s.grid)
              = Occupied(prev.grid) + 4 - 10 * Cardinality(CompleteRows(merged))
  /\ ( /\ IsHardDrop
       /\ ev2.type = "Array"
       /\ ev2.code = "Space"
       /\ prev2.grid = ColumnsThreeToSix(19)
       /\ prev2.currentTetromino = SpawnPiece("I")
       /\ prev2.nextTetromino = SpawnPiece("I") )
     => /\ s.grid = ColumnsThreeToSix(17)
        /\ s.score = 0

(***************************************************************************)
(* C25                                                                     *)
(***************************************************************************)
\* C25: rotating an O piece in any reachable state always succeeds in place:
\* the wall-kick entry of O is never consulted (the rotation in place is
\* legal), x, y and shape are unchanged and the orientation advances by 1
\* mod 4, for every starting orientation 0..3; so there is no kick lookup for
\* O at orientations 1..3 and no offset without dx and dy is ever applied.
C25_RotateO ==
  (ev = Up /\ Running(prev) /\ prev.currentTetromino.key = "O")
  => LET t == prev.currentTetromino
         turned == [t EXCEPT !.orientation = (@ + 1) % 4]
     IN /\ ~thrown
        /\ ~isCollision(t.x, t.y, rotateMatrix(t.shape), prev.grid)
        /\ ~isOutOfBounds(t.x, t.y, rotateMatrix(t.shape))
        /\ LegalPlacement(Turned(t), prev.grid)
        /\ rotateTetromino(prev) = [prev EXCEPT !.currentTetromino = turned]
        /\ SameButRestartFlag(s, [prev EXCEPT !.currentTetromino = turned])
        /\ s.currentTetromino.x = t.x /\ s.currentTetromino.x # NaN
        /\ s.currentTetromino.y = t.y /\ s.currentTetromino.y # NaN
        /\ s.currentTetromino.shape = TetrominoShapes["O"]

\* An O on the floor against the left wall turned from orientation 3 to 0.
C25_Witness ==
  /\ ev = Up
  /\ Running(prev)
  /\ prev.currentTetromino.key = "O"
  /\ prev.currentTetromino.orientation = 3
  /\ prev.currentTetromino.x = 0
  /\ prev.currentTetromino.y = GRID_HEIGHT - 2
  /\ s.currentTetromino.orientation = 0
  /\ s.currentTetromino.x = 0
  /\ s.currentTetromino.y = GRID_HEIGHT - 2

(***************************************************************************)
(* C26 (checked under SpecRate)                                            *)
(***************************************************************************)
\* C26: the tick interval derived from the level is
\* max(TICK_RATE_MS - level * TICKRATE_INCREMENT, MINIMUM_TICKRATE)
\* = max(500 - 50 * level, 25): for every level >= 0 it does not increase
\* with the level, is never below 25 ms and never above 500 ms.
C26_TickInterval ==
  (call.fn = "rate" /\ call.done)
  => /\ call.result >= 500 - 50 * call.arg
     /\ call.result >= 25
     /\ call.result \in {500 - 50 * call.arg, 25}
     /\ call.result <= 500
     /\ call.higher <= call.result

\* Level 9 gives 50 ms, the last interval above the floor; level 10 gives
\* the floor.
C26_Witness ==
  /\ call.fn = "rate"
  /\ call.done
  /\ call.arg = 9
  /\ call.result = 50
  /\ call.higher = 25

(***************************************************************************)
(* C27                                                                     *)
(***************************************************************************)
\* The matrix turned clockwise n times.
RECURSIVE TurnedTimes(_, _)
TurnedTimes(m, n) == IF n = 0 THEN m ELSE TurnedTimes(RotatedCW(m), n - 1)

\* C27: in every reachable state the active piece's shape matrix is the spawn
\* shape of its kind turned clockwise `orientation` times, with orientation
\* in 0..3; the next piece and the held piece (when there is one) have
\* orientation 0, the spawn shape and the spawn position
\* (x = 5 - floor(width / 2), y = -2).
C27_ShapeMatchesOrientation ==
  /\ s.currentTetromino.orientation \in 0..3
  /\ s.currentTetromino.key \in {"I", "J", "L", "O", "S", "T", "Z"}
  /\ s.currentTetromino.shape
     = TurnedTimes(TetrominoShapes[s.currentTetromino.key], s.currentTetromino.orientation)
  /\ s.currentTetromino.colour = TetrominoColours[s.currentTetromino.key]
  /\ s.nextTetromino.key \in {"I", "J", "L", "O", "S", "T", "Z"}
  /\ s.nextTetromino = SpawnPiece(s.nextTetromino.key)
  /\ s.holdTetromino # Undefined
     => /\ s.holdTetromino.key \in {"I", "J", "L", "O", "S", "T", "Z"}
        /\ s.holdTetromino = SpawnPiece(s.holdTetromino.key)

\* A piece is held, and the active piece, of another kind, has been turned
\* three times and lowered.
C27_Witness ==
  /\ ev = Up
  /\ s.holdTetromino # Undefined
  /\ s.holdTetromino.key # s.currentTetromino.key
  /\ s.currentTetromino.orientation = 3
  /\ s.currentTetromino.shape # TetrominoShapes[s.currentTetromino.key]
  /\ s.currentTetromino.y > -2

(***************************************************************************)
(* C28 (checked under SpecTicks)                                           *)
(***************************************************************************)
\* C28: if from some state on only ticks occur (the game running, not
\* paused, no key or click input), then whatever piece kinds are drawn the
\* game reaches a state with gameEnd = true after finitely many ticks.
C28_TicksEndTheGame == (script = <<>>) ~> s.gameEnd

(***************************************************************************)
(* C29 (checked under SpecCollision)                                       *)
(***************************************************************************)
\* C29: for every x, y, shape and grid, isOutOfBounds(x, y, shape) implies
\* isCollision(x, y, shape, grid); hence the legality test
\* (isCollision or isOutOfBounds) of move, rotate, wall kick and settle
\* detection has the value of isCollision alone.
C29_OutOfBoundsCollides ==
  (call.fn = "isCollision" /\ call.done)
  => /\ call.outOfBounds => call.result
     /\ (call.result \/ call.outOfBounds) = call.result
     /\ (~call.result /\ ~call.outOfBounds) = ~call.result

\* A piece astride a wall of the empty grid, some of its cells inside: out of
\* bounds, and a collision although no cell of the grid is occupied.
C29_Witness ==
  /\ call.fn = "isCollision"
  /\ call.done
  /\ call.outOfBounds
  /\ call.result
  /\ call.grid = EmptyGrid
  /\ \E cell \in ShapeCells(call.x, call.y, call.shape) :
       cell[1] \in 0..(GRID_HEIGHT - 1) /\ cell[2] \in 0..(GRID_WIDTH - 1)
  /\ \E cell \in ShapeCells(call.x, call.y, call.shape) : cell[2] >= GRID_WIDTH

====
